---- MODULE Spec2Model ----
(***************************************************************************)
(* Model of the secret-santa game server (src/app.py): the in-memory room  *)
(* registry `games`, the Game objects it maps to, and the Socket.IO event  *)
(* handlers that read and write them.                                      *)
(*                                                                         *)
(* Five specifications share the same state and the same operators:       *)
(*   Spec       every inbound event is handled from start to finish before *)
(*              the next one is looked at (one action per handler);        *)
(*   LobbySpec  the handlers run on threads (async_mode='threading',       *)
(*              src/app.py:15) with no lock: create_game, join_game,       *)
(*              start_game and disconnect are each two steps, the check of *)
(*              shared state and the write, and the handlers of other      *)
(*              events run between the two;                                *)
(*   GuessSpec  the same for make_guess, in a started game.                *)
(*   PlaySpec   the guessing phase of one room, every handler run at once, *)
(*              from the states in which the game has just been started;   *)
(*   RoomsSpec  two rooms live at once, every handler run at once.         *)
(* Game.players[sid]['joined_at'] is written and never read; it is the     *)
(* only field of the program state that is left out.                       *)
(***************************************************************************)
EXTENDS Integers, Sequences, FiniteSets, TLC

\* ---------------------------------------------------------------- bounds
NumSids == 2        \* connection identifiers that ever connect
NumNames == 2       \* display names clients type
NumCodes == 2       \* room codes generate_code() is seen to return
MaxGames == 2       \* Game objects alive at once
MaxGuesses == 2     \* guess-log entries held in all rooms together
MaxTime == 2        \* distinct clock readings recorded in one room
MaxRooms == 1       \* rooms live at once (Spec)
MaxConcAssignments == 1 \* assignment entries held in all Game objects together (GuessSpec)
MaxConcGames == 1   \* Game objects alive at once (GuessSpec)
MaxThreads == 1     \* handlers held between their check and their write at once
MaxTwoRooms == 2    \* rooms live at once (RoomsSpec)
MaxRoomsGuesses == 2 \* guess-log entries held in all rooms together (RoomsSpec)
MaxPlayGuesses == 4 \* guess-log entries held in the room of PlaySpec
MaxPlayTime == 2    \* distinct clock readings recorded in the room of PlaySpec

\* ------------------------------------------------------ program constants
CodeLen == 6        \* range(6) in generate_code

NoneVal == "None"   \* Python None / JSON null

AllNames == <<"Alice", "Bob", "Carol", "Dave">>
Names == {AllNames[i] : i \in 1..NumNames}
Sids == 1..NumSids
GuessInputs == Names \cup {NoneVal}

\* string.ascii_uppercase + string.digits
Alphabet == <<"A","B","C","D","E","F","G","H","I","J","K","L","M","N","O","P","Q","R","S","T","U","V","W","X","Y","Z","0","1","2","3","4","5","6","7","8","9">>
LowerLetters == <<"a","b","c","d","e","f","g","h","i","j","k","l","m","n","o","p","q","r","s","t","u","v","w","x","y","z">>

\* str.upper() on one character: a lowercase letter becomes its capital,
\* every other character is kept.
UpperChar(c) ==
    IF \E i \in DOMAIN LowerLetters : LowerLetters[i] = c
    THEN Alphabet[CHOOSE i \in DOMAIN LowerLetters : LowerLetters[i] = c]
    ELSE c

\* str.upper() on a string, held as a sequence of characters.
Upper(s) == [i \in DOMAIN s |-> UpperChar(s[i])]

\* What a client may type for a capital letter: its lowercase form.
LowerChar(c) ==
    IF \E i \in DOMAIN LowerLetters : Alphabet[i] = c
    THEN LowerLetters[CHOOSE i \in DOMAIN LowerLetters : Alphabet[i] = c]
    ELSE c

Lower(s) == [i \in DOMAIN s |-> LowerChar(s[i])]

\* The k-th room code of the model: CodeLen characters of the alphabet.
CodeOf(k) == [i \in 1..CodeLen |-> Alphabet[((7 * k + 5 * i) % 36) + 1]]

\* The values secrets.choice() is seen to assemble in generate_code().
generate_code == {CodeOf(k) : k \in 1..NumCodes}

\* Room identifiers clients send: a generated code as shown, or typed in
\* lowercase.
RoomInputs == generate_code \cup {Lower(c) : c \in generate_code}

\* ------------------------------------------------- Python dict, in order
\* A dict is a sequence of <<key, value>> pairs in insertion order, with no
\* key twice.
Keys(d) == {d[i][1] : i \in DOMAIN d}
Has(d, k) == k \in Keys(d)
IndexOf(d, k) == CHOOSE i \in DOMAIN d : d[i][1] = k
Get(d, k) == d[IndexOf(d, k)][2]
Put(d, k, v) ==
    IF Has(d, k) THEN [d EXCEPT ![IndexOf(d, k)] = <<k, v>>]
    ELSE Append(d, <<k, v>>)
DelKey(p, k) == p[1] # k
Del(d, k) == SelectSeq(d, LAMBDA p : DelKey(p, k))
Values(d) == [i \in DOMAIN d |-> d[i][2]]

\* ------------------------------------------------------------- class Game
\* Game.__init__
Game(host_id) ==
    [host_id |-> host_id,
     players |-> <<>>,
     assignments |-> <<>>,
     guesses |-> <<>>,
     completed |-> <<>>,
     started |-> FALSE]

\* Game.add_player
add_player(g, sid, name) ==
    [g EXCEPT !.players = Put(@, sid, name),
              !.guesses = Put(@, name, <<>>)]

\* remove_player that also drops the assignments whose recipient is the
\* player who leaves.
remove_player_and_gifts(g, sid) ==
    IF Has(g.players, sid)
    THEN LET name == Get(g.players, sid) IN
         [g EXCEPT !.players = Del(@, sid),
                   !.guesses = Del(@, name),
                   !.assignments = SelectSeq(Del(@, name), LAMBDA p : p[2] # name),
                   !.completed = Del(@, name)]
    ELSE g

\* Game.remove_player
remove_player(g, sid) ==
    IF Has(g.players, sid)
    THEN LET name == Get(g.players, sid) IN
         [g EXCEPT !.players = Del(@, sid),
                   !.guesses = Del(@, name),
                   !.assignments = Del(@, name),
                   !.completed = Del(@, name)]
    ELSE g

\* set_assignment that also puts the game back into the lobby.
set_assignment_reopens(g, player_name, got_name) ==
    [g EXCEPT !.assignments = Put(@, player_name, got_name), !.started = FALSE]

\* Game.set_assignment
set_assignment(g, player_name, got_name) ==
    [g EXCEPT !.assignments = Put(@, player_name, got_name)]

\* The scan of Game.make_guess: the key of the first assignment whose value
\* is player_name, None when there is none.
actual_santa(g, player_name) ==
    LET hits == {i \in DOMAIN g.assignments : g.assignments[i][2] = player_name} IN
    IF hits = {} THEN NoneVal
    ELSE g.assignments[CHOOSE i \in hits : \A j \in hits : i <= j][1]

\* guess_appended that starts the log again with the new guess.
guess_appended_restarts(g, player_name, guessed_santa) ==
    [g EXCEPT !.guesses = Put(@, player_name, <<guessed_santa>>)]

\* Game.make_guess, the guess log after the append.
guess_appended(g, player_name, guessed_santa) ==
    [g EXCEPT !.guesses = Put(@, player_name, Append(Get(@, player_name), guessed_santa))]

\* Game.make_guess, its return value.
guess_correct(g, player_name, guessed_santa) ==
    actual_santa(g, player_name) = guessed_santa

\* Game.make_guess, the Game after the call; now is what datetime.now()
\* returns.
make_guess(g, player_name, guessed_santa, now) ==
    LET g1 == guess_appended(g, player_name, guessed_santa) IN
    IF guess_correct(g1, player_name, guessed_santa)
    THEN [g1 EXCEPT !.completed =
             Put(@, player_name,
                 [timestamp |-> now,
                  guess_count |-> Len(Get(g1.guesses, player_name)),
                  santa |-> actual_santa(g1, player_name)])]
    ELSE g1

\* KeyLess that orders by the timestamp alone.
KeyLess_by_time(a, b) == a.timestamp < b.timestamp

\* The sort key of Game.get_leaderboard and its order on tuples.
KeyLess(a, b) ==
    \/ a.guess_count < b.guess_count
    \/ a.guess_count = b.guess_count /\ a.timestamp < b.timestamp

\* Position of entry i of d in sorted(d.items(), key=...): sorted() is
\* stable, so entries with equal keys keep their dict order.
SortedPos(d, i) ==
    1 + Cardinality({j \in DOMAIN d :
            \/ KeyLess(d[j][2], d[i][2])
            \/ ~KeyLess(d[i][2], d[j][2]) /\ j < i})

\* Game.get_leaderboard
get_leaderboard(g) ==
    LET d == g.completed IN
    [r \in 1..Len(d) |->
        LET i == CHOOSE i \in DOMAIN d : SortedPos(d, i) = r IN
        [rank |-> r,
         player |-> d[i][1],
         guesses |-> d[i][2].guess_count,
         santa |-> d[i][2].santa]]

\* Game.is_complete
is_complete(g) ==
    IF Len(g.players) > 0 THEN Len(g.completed) = Len(g.players) ELSE FALSE

\* [p['name'] for p in game.players.values()]
player_list(g) == Values(g.players)


\* ------------------------------------------------------------------ state
VARIABLES
    games,      \* the registry dict `games`: room code -> Game object (its id)
    objects,    \* the Game objects that are still referenced, by id
    conn,       \* each connection: "open" until its disconnect is handled, then "closed"
    threads     \* the handlers in flight (ConcSpec), each with its locals

vars == <<games, objects, conn, threads>>

\* A free worker thread.
Idle == [pc |-> "idle", sid |-> 0, room |-> <<>>, name |-> NoneVal,
         arg |-> NoneVal, obj |-> 0]

\* Python frees a Game no dict entry and no handler local refers to.
Collect(objs, gs, ths) ==
    LET live == {gs[i][2] : i \in DOMAIN gs} \cup {ths[t].obj : t \in DOMAIN ths} IN
    [o \in (DOMAIN objs) \cap live |-> objs[o]]

\* emit(event, data): to the requesting connection.
Emit(sid, event, data) == [event |-> event, to |-> <<"sid", sid>>, data |-> data]

\* emit(event, data, room=room_code): to every connection in the room.
EmitRoom(room_code, event, data) == [event |-> event, to |-> <<"room", room_code>>, data |-> data]

\* emit('error', {'message': ...})
EmitError(sid, message) == Emit(sid, "error", [message |-> message])

\* What a handler leaves behind: the registry, the Game objects, how it ended
\* ("ok", "error" or the exception it raised) and what it emitted.
Outcome(gs, objs, result, sent) ==
    [games |-> gs, objects |-> objs, result |-> result, sent |-> sent]

\* The handler answers with an error and changes nothing.
Refuse(gs, objs, sid, message) == Outcome(gs, objs, "error", <<EmitError(sid, message)>>)

\* ------------------------------------------------- the handlers' pieces
\* handle_create_game, the loop `while room_code in games`: the codes it can
\* leave the loop with.
FreshCodes(gs) == {c \in generate_code : ~Has(gs, c)}

\* handle_create_game, lines 129-133: games[room_code] = Game(request.sid),
\* the new Game being object id.
create_store(gs, objs, id, sid, room_code) ==
    Outcome(Put(gs, room_code, id),
            [o \in (DOMAIN objs) \cup {id} |-> IF o = id THEN Game(sid) ELSE objs[o]],
            "ok",
            <<Emit(sid, "game_created", [room_code |-> room_code])>>)

\* handle_join_game, lines 144-158: the error it answers with, "ok" when it
\* goes on to add the player.  room_code is already in upper case.
join_check(gs, objs, room_code, player_name) ==
    IF ~Has(gs, room_code) THEN "Game not found"
    ELSE LET game == objs[Get(gs, room_code)] IN
         IF game.started THEN "Game already started"
         ELSE IF \E i \in DOMAIN game.players : game.players[i][2] = player_name
         THEN "Name already taken"
         ELSE "ok"

\* handle_join_game, lines 160-173: add_player on the Game o the handler
\* holds, and the two emits.
join_add(gs, objs, o, sid, room_code, player_name) ==
    LET game == add_player(objs[o], sid, player_name) IN
    Outcome(gs, [objs EXCEPT ![o] = game], "ok",
        <<Emit(sid, "joined_game", [room_code |-> room_code, player_name |-> player_name]),
          EmitRoom(room_code, "player_list_update",
                   [players |-> player_list(game), count |-> Len(player_list(game))])>>)

\* start_check without the test of request.sid against game.host_id.
start_check_any_sid(gs, objs, sid, room_code) ==
    IF ~Has(gs, room_code) THEN "Game not found"
    ELSE LET game == objs[Get(gs, room_code)] IN
         IF Len(game.assignments) # Len(game.players)
         THEN "Not all players have submitted assignments"
         ELSE "ok"

\* handle_start_game, lines 201-213: the error it answers with, "ok" when it
\* goes on to start the game.
start_check(gs, objs, sid, room_code) ==
    IF ~Has(gs, room_code) THEN "Game not found"
    ELSE LET game == objs[Get(gs, room_code)] IN
         IF sid # game.host_id THEN "Only host can start game"
         ELSE IF Len(game.assignments) # Len(game.players)
         THEN "Not all players have submitted assignments"
         ELSE "ok"

\* handle_start_game, lines 215-219
start_set(gs, objs, o, room_code) ==
    Outcome(gs, [objs EXCEPT ![o].started = TRUE], "ok",
        <<EmitRoom(room_code, "game_started",
                   [message |-> "Game has started! Guess who your Secret Santa is!"])>>)

\* handle_make_guess, lines 227-239: the error it answers with, "ok" when it
\* goes on to call game.make_guess.
guess_check(gs, objs, room_code, player_name) ==
    IF ~Has(gs, room_code) THEN "Game not found"
    ELSE LET game == objs[Get(gs, room_code)] IN
         IF ~game.started THEN "Game not started yet"
         ELSE IF Has(game.completed, player_name) THEN "You already found your Santa!"
         ELSE "ok"

\* handle_make_guess, lines 241-263: game.make_guess on the Game o the
\* handler holds, and the emits.  self.guesses[player_name] raises KeyError
\* when the name has no guess log.
guess_apply(gs, objs, o, sid, room_code, player_name, guessed_santa, now) ==
    IF ~Has(objs[o].guesses, player_name)
    THEN Outcome(gs, objs, "KeyError", <<>>)
    ELSE
    LET game == make_guess(objs[o], player_name, guessed_santa, now)
        is_correct == guess_correct(objs[o], player_name, guessed_santa)
        attempts == Len(Get(game.guesses, player_name)) IN
    Outcome(gs, [objs EXCEPT ![o] = game], "ok",
        <<Emit(sid, "guess_result",
               [correct |-> is_correct, guessed |-> guessed_santa, attempts |-> attempts])>>
        \o (IF is_correct
            THEN <<EmitRoom(room_code, "player_completed",
                       [player |-> player_name, santa |-> guessed_santa,
                        attempts |-> attempts, rank |-> Len(game.completed)]),
                   EmitRoom(room_code, "leaderboard_update",
                       [leaderboard |-> get_leaderboard(game),
                        game_complete |-> is_complete(game)])>>
            ELSE <<>>))

\* handle_disconnect, the loop over list(games.items()): the index of the
\* first room that has request.sid among its players, 0 when there is none.
RoomOfSid(gs, objs, sid) ==
    LET hits == {i \in DOMAIN gs : Has(objs[gs[i][2]].players, sid)} IN
    IF hits = {} THEN 0 ELSE CHOOSE i \in hits : \A j \in hits : i <= j

\* handle_disconnect, lines 289-300: remove_player on room i of the
\* registry, and the two emits to the room.
disconnect_remove(gs, objs, i, sid) ==
    LET room_code == gs[i][1]
        o == gs[i][2]
        player_name == Get(objs[o].players, sid)
        game == remove_player(objs[o], sid) IN
    Outcome(gs, [objs EXCEPT ![o] = game], "ok",
        <<EmitRoom(room_code, "player_list_update",
                   [players |-> player_list(game), count |-> Len(player_list(game))]),
          EmitRoom(room_code, "player_disconnected", [player |-> player_name])>>)

\* disconnect_cleanup without the deletion of the empty game.
disconnect_cleanup_keeps(gs, objs, o, room_code) == Outcome(gs, objs, "ok", <<>>)

\* handle_disconnect, lines 303-304: the clean-up of empty games, on the
\* Game o the handler holds.  del games[room_code] raises KeyError when the
\* code is no longer a key.
disconnect_cleanup(gs, objs, o, room_code) ==
    IF Len(objs[o].players) = 0
    THEN IF Has(gs, room_code)
         THEN Outcome(Del(gs, room_code), objs, "ok", <<>>)
         ELSE Outcome(gs, objs, "KeyError", <<>>)
    ELSE Outcome(gs, objs, "ok", <<>>)

\* ------------------------------------------- the handlers, start to finish
\* handle_create_game, leaving its loop with room_code
handle_create_game(gs, objs, id, sid, room_code) ==
    create_store(gs, objs, id, sid, room_code)

\* handle_join_game
handle_join_game(gs, objs, sid, room_in, player_name) ==
    LET room_code == Upper(room_in)
        err == join_check(gs, objs, room_code, player_name) IN
    IF err # "ok" THEN Refuse(gs, objs, sid, err)
    ELSE join_add(gs, objs, Get(gs, room_code), sid, room_code, player_name)

\* handle_submit_assignment
handle_submit_assignment(gs, objs, sid, room_code, player_name, got_name) ==
    IF ~Has(gs, room_code) THEN Refuse(gs, objs, sid, "Game not found")
    ELSE LET o == Get(gs, room_code)
             game == set_assignment(objs[o], player_name, got_name) IN
         Outcome(gs, [objs EXCEPT ![o] = game], "ok",
             <<EmitRoom(room_code, "assignment_submitted",
                  [player_name |-> player_name,
                   total |-> Len(game.players),
                   submitted |-> Len(game.assignments),
                   all_ready |-> (Len(game.assignments) = Len(game.players))])>>)

\* handle_start_game
handle_start_game(gs, objs, sid, room_code) ==
    LET err == start_check(gs, objs, sid, room_code) IN
    IF err # "ok" THEN Refuse(gs, objs, sid, err)
    ELSE start_set(gs, objs, Get(gs, room_code), room_code)

\* handle_make_guess
handle_make_guess(gs, objs, sid, room_code, player_name, guessed_santa, now) ==
    LET err == guess_check(gs, objs, room_code, player_name) IN
    IF err # "ok" THEN Refuse(gs, objs, sid, err)
    ELSE guess_apply(gs, objs, Get(gs, room_code), sid, room_code, player_name,
                     guessed_santa, now)

\* handle_get_game_state
handle_get_game_state(gs, objs, sid, room_code) ==
    IF ~Has(gs, room_code) THEN Refuse(gs, objs, sid, "Game not found")
    ELSE LET game == objs[Get(gs, room_code)] IN
         Outcome(gs, objs, "ok",
             <<Emit(sid, "game_state",
                  [players |-> player_list(game),
                   started |-> game.started,
                   leaderboard |-> get_leaderboard(game),
                   game_complete |-> is_complete(game)])>>)

\* handle_disconnect
handle_disconnect(gs, objs, sid) ==
    LET i == RoomOfSid(gs, objs, sid) IN
    IF i = 0 THEN Outcome(gs, objs, "ok", <<>>)
    ELSE LET r == disconnect_remove(gs, objs, i, sid)
             c == disconnect_cleanup(r.games, r.objects, gs[i][2], gs[i][1]) IN
         Outcome(c.games, c.objects, c.result, r.sent)

\* ------------------------------------------------------------------ Init
Init ==
    /\ games = <<>>
    /\ objects = <<>>
    /\ conn = [s \in Sids |-> "open"]
    /\ threads = [t \in 1..MaxThreads |-> Idle]

\* Game(...) constructs a new object: an id no live object has.
NewObj(objs) == CHOOSE o \in 1..(MaxGames + 1) : o \notin DOMAIN objs /\ \A p \in 1..(o - 1) : p \in DOMAIN objs

\* datetime.now() in Game.make_guess: a reading no earlier than the ones
\* the Game has recorded; only the order of readings is ever used, so the
\* first is 1 and a later one equals the latest or follows it.
Clock(game) ==
    IF game.completed = <<>> THEN {1}
    ELSE LET m == CHOOSE t \in {game.completed[i][2].timestamp : i \in DOMAIN game.completed} :
                    \A i \in DOMAIN game.completed : game.completed[i][2].timestamp <= t
         IN {m, m + 1}

\* The handler's outcome becomes the state; ths are the handlers in flight
\* after the step.
BecomesWith(r, ths) ==
    /\ games' = r.games
    /\ objects' = Collect(r.objects, r.games, ths)

Becomes(r) == BecomesWith(r, threads)

\* Connection identifiers and room codes are interchangeable until the
\* state mentions them: of the ones no state component mentions yet, only
\* the first is explored (the others give the same behaviours renamed).
SeenSids ==
    {s \in Sids : \/ conn[s] = "closed"
                  \/ \E o \in DOMAIN objects : objects[o].host_id = s \/ Has(objects[o].players, s)
                  \/ \E t \in DOMAIN threads : threads[t].sid = s}

SeenCodes ==
    {c \in generate_code : Has(games, c) \/ \E t \in DOMAIN threads : threads[t].room = c}

CodeIndex(c) == CHOOSE k \in 1..NumCodes : CodeOf(k) = c

FirstSid(sid) ==
    IF sid \in SeenSids THEN TRUE ELSE \A s \in Sids \ SeenSids : sid <= s

FirstCode(c) ==
    IF c \in SeenCodes THEN TRUE
    ELSE \A d \in generate_code \ SeenCodes : CodeIndex(c) <= CodeIndex(d)

\* ------------------------------------------- one handler at a time
\* handle_connect changes no state and is not an action: a connection is
\* "open" from the start until its disconnect is handled.
CreateGame(sid) ==
    /\ conn[sid] = "open"
    /\ \E room_code \in FreshCodes(games) :
          /\ FirstCode(room_code)
          /\ Becomes(handle_create_game(games, objects, NewObj(objects), sid, room_code))
    /\ UNCHANGED <<conn, threads>>

JoinGame(sid, room_in, player_name) ==
    /\ conn[sid] = "open"
    /\ Becomes(handle_join_game(games, objects, sid, room_in, player_name))
    /\ UNCHANGED <<conn, threads>>

SubmitAssignment(sid, room_code, player_name, got_name) ==
    /\ conn[sid] = "open"
    /\ Becomes(handle_submit_assignment(games, objects, sid, room_code, player_name, got_name))
    /\ UNCHANGED <<conn, threads>>

StartGame(sid, room_code) ==
    /\ conn[sid] = "open"
    /\ Becomes(handle_start_game(games, objects, sid, room_code))
    /\ UNCHANGED <<conn, threads>>

MakeGuess(sid, room_code, player_name, guessed_santa) ==
    /\ conn[sid] = "open"
    /\ \E now \in (IF Has(games, room_code) THEN Clock(objects[Get(games, room_code)]) ELSE {1}) :
          Becomes(handle_make_guess(games, objects, sid, room_code, player_name,
                                    guessed_santa, now))
    /\ UNCHANGED <<conn, threads>>

GetGameState(sid, room_code) ==
    /\ conn[sid] = "open"
    /\ Becomes(handle_get_game_state(games, objects, sid, room_code))
    /\ UNCHANGED <<conn, threads>>

Disconnect(sid) ==
    /\ conn[sid] = "open"
    /\ conn' = [conn EXCEPT ![sid] = "closed"]
    /\ Becomes(handle_disconnect(games, objects, sid))
    /\ UNCHANGED threads

\* ------------------------------------------------------------ model bounds
\* Guess-log entries held in all Game objects together.
TotalGuesses ==
    Cardinality({x \in (DOMAIN objects) \X (1..NumNames) \X (1..(MaxGuesses + 1)) :
        /\ x[2] \in DOMAIN objects[x[1]].guesses
        /\ x[3] \in DOMAIN objects[x[1]].guesses[x[2]][2]})

\* The latest clock reading recorded.
LatestTime ==
    Cardinality({t \in 1..(MaxTime + 1) : \E o \in DOMAIN objects, i \in 1..NumNames :
        i \in DOMAIN objects[o].completed /\ objects[o].completed[i][2].timestamp >= t})

\* The states the specification Spec explores: at most MaxRooms rooms live
\* at once, MaxGuesses guesses logged, MaxTime clock readings.
Scope ==
    /\ Len(games) <= MaxRooms
    /\ Cardinality(DOMAIN objects) <= MaxGames
    /\ TotalGuesses <= MaxGuesses
    /\ LatestTime <= MaxTime

Next ==
    \/ \E sid \in Sids : FirstSid(sid) /\ CreateGame(sid) /\ Scope'
    \/ \E sid \in Sids, room \in RoomInputs, name \in Names :
          FirstSid(sid) /\ JoinGame(sid, room, name) /\ Scope'
    \/ \E sid \in Sids, room \in RoomInputs, name \in Names, got \in Names :
          FirstSid(sid) /\ SubmitAssignment(sid, room, name, got) /\ Scope'
    \/ \E sid \in Sids, room \in RoomInputs : FirstSid(sid) /\ StartGame(sid, room) /\ Scope'
    \/ \E sid \in Sids, room \in RoomInputs, name \in Names, guess \in GuessInputs :
          FirstSid(sid) /\ MakeGuess(sid, room, name, guess) /\ Scope'
    \/ \E sid \in Sids, room \in RoomInputs : FirstSid(sid) /\ GetGameState(sid, room) /\ Scope'
    \/ \E sid \in Sids : FirstSid(sid) /\ Disconnect(sid) /\ Scope'

Spec == Init /\ [][Next]_vars

\* --------------------------------------- ConcSpec: handlers on threads
\* async_mode='threading' runs every handler on its own thread and the code
\* takes no lock.  A handler that checks shared state and then writes it can
\* be held between the two while other handlers run; thread t then keeps
\* the handler's locals.  A handler that is not held runs as in Spec.
Held(pc, sid, room, name, arg, obj) ==
    [pc |-> pc, sid |-> sid, room |-> room, name |-> name, arg |-> arg, obj |-> obj]

\* handle_create_game up to line 127: the loop is left with room_code.
CreateCheck(t, sid) ==
    /\ threads[t].pc = "idle"
    /\ conn[sid] = "open"
    /\ \E room_code \in FreshCodes(games) :
          threads' = [threads EXCEPT ![t] = Held("create", sid, room_code, NoneVal, NoneVal, 0)]
    /\ UNCHANGED <<games, objects, conn>>

\* handle_create_game from line 129
CreateStore(t) ==
    /\ threads[t].pc = "create"
    /\ threads' = [threads EXCEPT ![t] = Idle]
    /\ BecomesWith(create_store(games, objects, NewObj(objects), threads[t].sid,
                                 threads[t].room), threads')
    /\ UNCHANGED conn

\* handle_join_game up to line 158, every check passed
JoinCheck(t, sid, room_in, player_name) ==
    /\ threads[t].pc = "idle"
    /\ conn[sid] = "open"
    /\ join_check(games, objects, Upper(room_in), player_name) = "ok"
    /\ threads' = [threads EXCEPT ![t] =
          Held("join", sid, Upper(room_in), player_name, NoneVal, Get(games, Upper(room_in)))]
    /\ UNCHANGED <<games, objects, conn>>

\* handle_join_game from line 160
JoinAdd(t) ==
    /\ threads[t].pc = "join"
    /\ threads' = [threads EXCEPT ![t] = Idle]
    /\ BecomesWith(join_add(games, objects, threads[t].obj, threads[t].sid,
                             threads[t].room, threads[t].name), threads')
    /\ UNCHANGED conn

\* handle_start_game up to line 213, every check passed
StartCheck(t, sid, room_code) ==
    /\ threads[t].pc = "idle"
    /\ conn[sid] = "open"
    /\ start_check(games, objects, sid, room_code) = "ok"
    /\ threads' = [threads EXCEPT ![t] =
          Held("start", sid, room_code, NoneVal, NoneVal, Get(games, room_code))]
    /\ UNCHANGED <<games, objects, conn>>

\* handle_start_game from line 215
StartSet(t) ==
    /\ threads[t].pc = "start"
    /\ threads' = [threads EXCEPT ![t] = Idle]
    /\ BecomesWith(start_set(games, objects, threads[t].obj, threads[t].room), threads')
    /\ UNCHANGED conn

\* handle_make_guess up to line 239, every check passed
GuessCheck(t, sid, room_code, player_name, guessed_santa) ==
    /\ threads[t].pc = "idle"
    /\ conn[sid] = "open"
    /\ guess_check(games, objects, room_code, player_name) = "ok"
    /\ threads' = [threads EXCEPT ![t] =
          Held("guess", sid, room_code, player_name, guessed_santa, Get(games, room_code))]
    /\ UNCHANGED <<games, objects, conn>>

\* handle_make_guess from line 241
GuessApply(t) ==
    /\ threads[t].pc = "guess"
    /\ threads' = [threads EXCEPT ![t] = Idle]
    /\ \E now \in Clock(objects[threads[t].obj]) :
          BecomesWith(guess_apply(games, objects, threads[t].obj, threads[t].sid,
                                  threads[t].room, threads[t].name, threads[t].arg, now),
                      threads')
    /\ UNCHANGED conn

\* handle_disconnect up to line 300, request.sid found in a room
DisconnectRemove(t, sid) ==
    LET i == RoomOfSid(games, objects, sid) IN
    /\ threads[t].pc = "idle"
    /\ conn[sid] = "open"
    /\ i # 0
    /\ conn' = [conn EXCEPT ![sid] = "closed"]
    /\ threads' = [threads EXCEPT ![t] =
          Held("cleanup", sid, games[i][1], NoneVal, NoneVal, games[i][2])]
    /\ BecomesWith(disconnect_remove(games, objects, i, sid), threads')

\* handle_disconnect from line 303
DisconnectCleanup(t) ==
    /\ threads[t].pc = "cleanup"
    /\ threads' = [threads EXCEPT ![t] = Idle]
    /\ BecomesWith(disconnect_cleanup(games, objects, threads[t].obj, threads[t].room),
                   threads')
    /\ UNCHANGED conn

Threads == 1..MaxThreads

\* Assignment entries held in all Game objects together.
TotalAssignments ==
    Cardinality({x \in (DOMAIN objects) \X (1..NumNames) : x[2] \in DOMAIN objects[x[1]].assignments})

\* The states GuessSpec explores: those of Spec, with at most
\* MaxConcAssignments assignments and MaxConcGames Game objects.
ConcScope ==
    /\ Scope
    /\ TotalAssignments <= MaxConcAssignments
    /\ Cardinality(DOMAIN objects) <= MaxConcGames

\* The handlers of the lobby (create, join, start, disconnect, get state),
\* each run at once or held between its check and its write.
LobbyNext ==
    \/ \E sid \in Sids : FirstSid(sid) /\ CreateGame(sid) /\ Scope'
    \/ \E sid \in Sids, room \in RoomInputs, name \in Names :
          FirstSid(sid) /\ JoinGame(sid, room, name) /\ Scope'
    \/ \E sid \in Sids, room \in RoomInputs : FirstSid(sid) /\ StartGame(sid, room) /\ Scope'
    \/ \E sid \in Sids, room \in RoomInputs : FirstSid(sid) /\ GetGameState(sid, room) /\ Scope'
    \/ \E sid \in Sids : FirstSid(sid) /\ Disconnect(sid) /\ Scope'
    \/ \E t \in Threads, sid \in Sids : FirstSid(sid) /\ CreateCheck(t, sid) /\ Scope'
    \/ \E t \in Threads : CreateStore(t) /\ Scope'
    \/ \E t \in Threads, sid \in Sids, room \in RoomInputs, name \in Names :
          FirstSid(sid) /\ JoinCheck(t, sid, room, name) /\ Scope'
    \/ \E t \in Threads : JoinAdd(t) /\ Scope'
    \/ \E t \in Threads, sid \in Sids, room \in RoomInputs :
          FirstSid(sid) /\ StartCheck(t, sid, room) /\ Scope'
    \/ \E t \in Threads : StartSet(t) /\ Scope'
    \/ \E t \in Threads, sid \in Sids : FirstSid(sid) /\ DisconnectRemove(t, sid) /\ Scope'
    \/ \E t \in Threads : DisconnectCleanup(t) /\ Scope'

LobbySpec == Init /\ [][LobbyNext]_vars

\* Every handler run at once, and handle_make_guess also held between its
\* check and its call of game.make_guess.
GuessNext ==
    \/ \E sid \in Sids : FirstSid(sid) /\ CreateGame(sid) /\ ConcScope'
    \/ \E sid \in Sids, room \in RoomInputs, name \in Names :
          FirstSid(sid) /\ JoinGame(sid, room, name) /\ ConcScope'
    \/ \E sid \in Sids, room \in RoomInputs, name \in Names, got \in Names :
          FirstSid(sid) /\ SubmitAssignment(sid, room, name, got) /\ ConcScope'
    \/ \E sid \in Sids, room \in RoomInputs : FirstSid(sid) /\ StartGame(sid, room) /\ ConcScope'
    \/ \E sid \in Sids, room \in RoomInputs, name \in Names, guess \in Names :
          FirstSid(sid) /\ MakeGuess(sid, room, name, guess) /\ ConcScope'
    \/ \E sid \in Sids, room \in RoomInputs : FirstSid(sid) /\ GetGameState(sid, room) /\ ConcScope'
    \/ \E sid \in Sids : FirstSid(sid) /\ Disconnect(sid) /\ ConcScope'
    \/ \E t \in Threads, sid \in Sids, room \in RoomInputs, name \in Names, guess \in Names :
          FirstSid(sid) /\ GuessCheck(t, sid, room, name, guess) /\ ConcScope'
    \/ \E t \in Threads : GuessApply(t) /\ ConcScope'

GuessSpec == Init /\ [][GuessNext]_vars

\* ------------------------------------------------------------- claims
\* The Game objects the registry maps a room code to.
Rooms == {games[i][2] : i \in DOMAIN games}

\* The display names of the current members of Game g.
MemberNames(g) == {g.players[i][2] : i \in DOMAIN g.players}

\* C1: in every reachable state of a room no two current members have the
\* same display name, also when the handlers of two join_game events
\* interleave.
C1_UniqueMemberNames ==
    \A o \in Rooms :
        \A a, b \in DOMAIN objects[o].players :
            a # b => objects[o].players[a][2] # objects[o].players[b][2]

\* C2: a room's started flag goes from False to True only in a state where
\* every current member's display name is a key of assignments.
C2_StartNeedsEveryAssignment ==
    [][\A o \in DOMAIN objects :
         (o \in DOMAIN objects' /\ ~objects[o].started /\ objects'[o].started)
         => \A n \in MemberNames(objects[o]) : Has(objects[o].assignments, n)]_vars

\* C3: in every reachable state of every room, completed has no more
\* entries than players.
C3_CompletionsWithinMembers ==
    \A o \in Rooms : Len(objects[o].completed) <= Len(objects[o].players)

\* C4: in every reachable state the game_complete flag that get_game_state
\* reports for a room is true exactly when the room has at least one member
\* and every current member's display name has an entry in completed.
C4_CompleteIffEveryMemberDone ==
    \A i \in DOMAIN games : \A sid \in Sids :
        LET g == objects[games[i][2]]
            reported == handle_get_game_state(games, objects, sid, games[i][1]).sent[1].data.game_complete
        IN reported <=> (/\ Len(g.players) > 0
                         /\ \A n \in MemberNames(g) : Has(g.completed, n))

\* C5: a disconnect that removes the last member of a room removes the room
\* from the registry in the same step; a disconnect that removes a member
\* while another remains leaves the room in the registry under the same code,
\* the same Game, with exactly the other members.
C5_DisconnectStep(sid) ==
    \A i \in DOMAIN games :
        LET room_code == games[i][1]
            o == games[i][2]
            g == objects[o]
            removed == \/ ~Has(games', room_code)
                       \/ ~Has(objects'[Get(games', room_code)].players, sid)
        IN (Has(g.players, sid) /\ removed) =>
             IF Keys(g.players) = {sid}
             THEN ~Has(games', room_code)
             ELSE /\ Has(games', room_code)
                  /\ Get(games', room_code) = o
                  /\ objects'[o].players = Del(g.players, sid)

C5_LastMemberRemovesRoom ==
    [][\A sid \in Sids :
         (conn[sid] = "open" /\ conn'[sid] = "closed") =>
            /\ C5_DisconnectStep(sid)
            /\ (\E i \in DOMAIN games : Has(objects[games[i][2]].players, sid))
               => (\E j \in DOMAIN games :
                     /\ Has(objects[games[j][2]].players, sid)
                     /\ \/ ~Has(games', games[j][1])
                        \/ ~Has(objects'[Get(games', games[j][1])].players, sid))]_vars

\* C5, its cases: one connection's disconnect has been handled and a room is
\* left with exactly one member, whose connection is open, so that the
\* disconnect of a last member is the next step.
C5_Witness ==
    /\ \E s \in Sids : conn[s] = "closed"
    /\ \E o \in Rooms :
         /\ Len(objects[o].players) = 1
         /\ conn[objects[o].players[1][1]] = "open"

\* C6: once a member has a completion record, the record is not written
\* again and the member's guess log does not grow while the player stays in
\* completed, also when two make_guess handlers for the player interleave.
C6_CompletionWrittenOnce ==
    [][\A o \in DOMAIN objects : \A n \in Names :
         (/\ o \in DOMAIN objects'
          /\ Has(objects[o].completed, n)
          /\ Has(objects'[o].completed, n))
         => /\ Get(objects'[o].completed, n) = Get(objects[o].completed, n)
            /\ Get(objects'[o].guesses, n) = Get(objects[o].guesses, n)]_vars

\* C7: no member is added to a started room: from a state in which the
\* room is started, no step adds a connection to its players, also when a
\* join_game handler and the start_game handler interleave.
C7_NoJoinAfterStart ==
    [][\A o \in DOMAIN objects :
         (o \in DOMAIN objects' /\ objects[o].started)
         => Keys(objects'[o].players) \subseteq Keys(objects[o].players)]_vars

\* The handler answered with one error to the requesting connection, sent
\* nothing else and changed neither the registry nor any Game.
OnlyError(out, sid) ==
    /\ Len(out.sent) = 1
    /\ out.sent[1].event = "error"
    /\ out.sent[1].to = <<"sid", sid>>
    /\ out.games = games
    /\ out.objects = objects

\* C8: in every reachable state, an event whose precondition fails (no room
\* with the identifier; on join_game the room started or the name taken; on
\* start_game the requester not the host or |assignments| # |players|; on
\* make_guess the room not started or the player already in completed) is
\* answered with one error to the requester and changes nothing.
C8_FailedPreconditionOnlyErrors ==
    \A sid \in Sids, room \in RoomInputs :
        IF ~Has(games, Upper(room))
        THEN /\ \A n \in Names : OnlyError(handle_join_game(games, objects, sid, room, n), sid)
             /\ \A n, m \in Names :
                  OnlyError(handle_submit_assignment(games, objects, sid, room, n, m), sid)
             /\ OnlyError(handle_start_game(games, objects, sid, room), sid)
             /\ \A n \in Names, m \in GuessInputs :
                  OnlyError(handle_make_guess(games, objects, sid, room, n, m, 1), sid)
             /\ OnlyError(handle_get_game_state(games, objects, sid, room), sid)
        ELSE LET g == objects[Get(games, Upper(room))] IN
             /\ \A n \in Names :
                  (g.started \/ n \in MemberNames(g))
                  => OnlyError(handle_join_game(games, objects, sid, room, n), sid)
             /\ (sid # g.host_id \/ Len(g.assignments) # Len(g.players))
                  => OnlyError(handle_start_game(games, objects, sid, room), sid)
             /\ \A n \in Names, m \in GuessInputs :
                  (~g.started \/ Has(g.completed, n))
                  => OnlyError(handle_make_guess(games, objects, sid, room, n, m, 1), sid)

\* C8, its cases: a room in the lobby with two members and one assignment,
\* and both connections open, one of them not the host: a start_game fails
\* for either reason, a join_game under a member's name fails, a make_guess
\* fails.
C8_Witness ==
    /\ \A s \in Sids : conn[s] = "open"
    /\ \E o \in Rooms :
         /\ ~objects[o].started
         /\ Len(objects[o].players) = 2
         /\ Len(objects[o].assignments) = 1

\* C9: in every reachable state, for every live room and every case variant
\* of its code, none of join_game, submit_assignment, start_game,
\* make_guess and get_game_state answers "Game not found".
NotFound(out, sid) == out.sent = <<EmitError(sid, "Game not found")>>

C9_LookupIgnoresCase ==
    \A sid \in Sids, room \in RoomInputs :
        Has(games, Upper(room)) =>
            /\ \A n \in Names : ~NotFound(handle_join_game(games, objects, sid, room, n), sid)
            /\ \A n, m \in Names :
                 ~NotFound(handle_submit_assignment(games, objects, sid, room, n, m), sid)
            /\ ~NotFound(handle_start_game(games, objects, sid, room), sid)
            /\ \A n \in Names, m \in GuessInputs :
                 ~NotFound(handle_make_guess(games, objects, sid, room, n, m, 1), sid)
            /\ ~NotFound(handle_get_game_state(games, objects, sid, room), sid)

\* C10: no step maps a room code that has a live Game to another Game, and
\* a step that adds to the registry adds one entry, also when two
\* create_game handlers interleave and leave the loop with the same code.
C10_CreateNeverOverwrites ==
    [][/\ \A i \in DOMAIN games :
            Has(games', games[i][1]) => Get(games', games[i][1]) = games[i][2]
       /\ Len(games') <= Len(games) + 1]_vars

\* C12: the phase of a room is monotonic: no step takes a room that is
\* started to a state in which the room exists and is not started, whether
\* the room is followed by its Game or by its code in the registry.
C12_PhaseMonotonic ==
    [][/\ \A o \in DOMAIN objects :
            (o \in DOMAIN objects' /\ objects[o].started) => objects'[o].started
       /\ \A i \in DOMAIN games :
            (objects[games[i][2]].started /\ Has(games', games[i][1]))
            => objects'[Get(games', games[i][1])].started]_vars

\* C12, its cases: a started room in which a guess has completed a player
\* and an assignment was stored for a name that is no member, so events of
\* the guessing phase have been handled after the start.
C12_Witness ==
    \E o \in Rooms :
        /\ objects[o].started
        /\ Len(objects[o].completed) > 0
        /\ \E n \in Keys(objects[o].assignments) : n \notin MemberNames(objects[o])

\* C13: every display name that is a key of guesses, assignments or
\* completed of a room is the name of a connection that is or was a member
\* of the room.  A name leaves the guess log only in remove_player, which
\* only handle_disconnect calls, so while no disconnect has been handled
\* the names that are or were members are the keys of guesses and the
\* current members' names; the property is stated for those states.
C13_KeysWereMembers ==
    (\A s \in Sids : conn[s] = "open") =>
        \A o \in Rooms :
            LET g == objects[o] IN
            Keys(g.guesses) \cup Keys(g.assignments) \cup Keys(g.completed)
                \subseteq Keys(g.guesses) \cup MemberNames(g)

\* C14: in every reachable state, an accepted make_guess by player P with
\* guess G is reported correct, and records a completion for P with santa
\* G, exactly when the first assignment entry whose value is P has key G;
\* with no such entry no guess is correct and no completion is recorded.
C14_CorrectIffFirstSanta ==
    \A i \in DOMAIN games, sid \in Sids, P \in Names, G \in GuessInputs :
        LET o == games[i][2]
            g == objects[o]
            out == handle_make_guess(games, objects, sid, games[i][1], P, G, 1)
            hits == {k \in DOMAIN g.assignments : g.assignments[k][2] = P}
            should == /\ hits # {}
                      /\ \E k \in hits : /\ \A j \in hits : k <= j
                                         /\ g.assignments[k][1] = G
        IN (g.started /\ ~Has(g.completed, P) /\ Has(g.guesses, P)) =>
             /\ out.sent[1].event = "guess_result"
             /\ out.sent[1].data.correct <=> should
             /\ Has(out.objects[o].completed, P) <=> should
             /\ should => Get(out.objects[o].completed, P).santa = G

\* C19: once a room is started no step adds an entry to its assignments or
\* changes the recipient of an entry; entries only go away.
C19_AssignmentsFrozenAfterStart ==
    [][\A o \in DOMAIN objects :
         (o \in DOMAIN objects' /\ objects[o].started) =>
            \A n \in Keys(objects'[o].assignments) :
                /\ Has(objects[o].assignments, n)
                /\ Get(objects'[o].assignments, n) = Get(objects[o].assignments, n)]_vars

\* C20: no room outlives its participants: a room in the registry has a
\* creator or a member whose disconnect has not been handled.  (A
\* connection that joined stays a member until its disconnect, so the
\* connections that created or joined the room and are not disconnected
\* are the host and the current members that are open.)
C20_NoRoomOutlivesParticipants ==
    \A o \in Rooms :
        \/ conn[objects[o].host_id] = "open"
        \/ \E s \in Keys(objects[o].players) : conn[s] = "open"

\* C17: every session with a member is in the registry under its code: a
\* Game with a member whose connection is open is one the registry maps
\* to, and a join_game handler that is about to add its player and confirm
\* (joined_game) leaves the connection a member of the Game the registry
\* holds under the room code, also when the disconnect of the room's last
\* member was handled between the handler's checks and its add.
C17_JoinedRoomIsRegistered ==
    /\ \A o \in DOMAIN objects :
          (\E s \in Keys(objects[o].players) : conn[s] = "open") => o \in Rooms
    /\ \A t \in Threads :
          (threads[t].pc = "join" /\ conn[threads[t].sid] = "open") =>
             LET th == threads[t]
                 out == join_add(games, objects, th.obj, th.sid, th.room, th.name)
             IN (\E k \in DOMAIN out.sent : out.sent[k].event = "joined_game") =>
                  /\ Has(out.games, th.room)
                  /\ Has(out.objects[Get(out.games, th.room)].players, th.sid)

\* ------------------------------------------ PlaySpec: the guessing phase
\* The guessing phase of one room, from the states in which the game has
\* just been started: create_game by connection 1, the connections joined
\* in turn under the first names, one assignment submitted per member (in
\* any order, with any recipient), start_game by the host.
PlayMembers == IF NumSids <= NumNames THEN NumSids ELSE NumNames

PlayAssignments ==
    {a \in [1..PlayMembers -> Names \X Names] :
        \A i, j \in 1..PlayMembers : i # j => a[i][1] # a[j][1]}

PlayGame(a) ==
    [host_id |-> 1,
     players |-> [i \in 1..PlayMembers |-> <<i, AllNames[i]>>],
     assignments |-> a,
     guesses |-> [i \in 1..PlayMembers |-> <<AllNames[i], <<>>>>],
     completed |-> <<>>,
     started |-> TRUE]

PlayInit ==
    /\ games = <<<<CodeOf(1), 1>>>>
    /\ \E a \in PlayAssignments : objects = <<PlayGame(a)>>
    /\ conn = [s \in Sids |-> "open"]
    /\ threads = [t \in 1..MaxThreads |-> Idle]

\* Guess-log entries held in all Game objects together, for PlaySpec.
PlayGuesses ==
    Cardinality({x \in (DOMAIN objects) \X (1..NumNames) \X (1..(MaxPlayGuesses + 1)) :
        /\ x[2] \in DOMAIN objects[x[1]].guesses
        /\ x[3] \in DOMAIN objects[x[1]].guesses[x[2]][2]})

\* The latest clock reading recorded, for PlaySpec.
PlayLatest ==
    Cardinality({t \in 1..(MaxPlayTime + 1) : \E o \in DOMAIN objects, i \in 1..NumNames :
        i \in DOMAIN objects[o].completed /\ objects[o].completed[i][2].timestamp >= t})

PlayScope ==
    /\ PlayGuesses <= MaxPlayGuesses
    /\ PlayLatest <= MaxPlayTime

PlayNext ==
    \/ \E sid \in Sids, name \in Names, guess \in GuessInputs :
          MakeGuess(sid, CodeOf(1), name, guess) /\ PlayScope'
    \/ \E sid \in Sids : GetGameState(sid, CodeOf(1)) /\ PlayScope'
    \/ \E sid \in Sids : Disconnect(sid) /\ PlayScope'

PlaySpec == PlayInit /\ [][PlayNext]_vars

\* C11: in every reachable state the leaderboard a room reports has exactly
\* one entry per completion record, with the record's player, guess count
\* and santa; entries are in non-decreasing order of guess count, entries
\* with equal guess count in order of completion timestamp; the entry at
\* position i has rank i.
C11_LeaderboardSortedDenseRanks ==
    \A i \in DOMAIN games, sid \in Sids :
        LET d == objects[games[i][2]].completed
            lb == handle_get_game_state(games, objects, sid, games[i][1]).sent[1].data.leaderboard
        IN /\ Len(lb) = Len(d)
           /\ \A n \in Keys(d) : \E r \in DOMAIN lb : lb[r].player = n
           /\ \A r \in DOMAIN lb :
                /\ lb[r].rank = r
                /\ Has(d, lb[r].player)
                /\ lb[r].guesses = Get(d, lb[r].player).guess_count
                /\ lb[r].santa = Get(d, lb[r].player).santa
           /\ \A r, q \in DOMAIN lb :
                r < q =>
                  \/ lb[r].guesses < lb[q].guesses
                  \/ /\ lb[r].guesses = lb[q].guesses
                     /\ Get(d, lb[r].player).timestamp <= Get(d, lb[q].player).timestamp

\* C11, its cases: the player who completed first needed more guesses than
\* the one who completed later, so the leaderboard is not in the order of
\* completion.
C11_Witness ==
    \E o \in Rooms :
        LET d == objects[o].completed IN
        /\ Len(d) = 2
        /\ d[1][2].guess_count > d[2][2].guess_count
        /\ d[1][2].timestamp < d[2][2].timestamp

\* C15: in every reachable state, a make_guess the handler accepts (the
\* room is started, the player has a guess log and no completion) appends
\* exactly the guess to that player's log and to no other, reports attempts
\* equal to the log's new length, and when it is correct records a guess
\* count equal to that length.
C15_AttemptsCountEveryGuess ==
    \A i \in DOMAIN games, sid \in Sids, P \in Names, G \in GuessInputs :
        LET o == games[i][2]
            g == objects[o]
            out == handle_make_guess(games, objects, sid, games[i][1], P, G, 1)
        IN (g.started /\ ~Has(g.completed, P) /\ Has(g.guesses, P)) =>
             LET g2 == out.objects[o]
                 log == Get(g.guesses, P)
             IN /\ Get(g2.guesses, P) = Append(log, G)
                /\ \A n \in Keys(g.guesses) \ {P} :
                      Has(g2.guesses, n) /\ Get(g2.guesses, n) = Get(g.guesses, n)
                /\ out.sent[1].event = "guess_result"
                /\ out.sent[1].data.attempts = Len(log) + 1
                /\ out.sent[1].data.correct =>
                      /\ Has(g2.completed, P)
                      /\ Get(g2.completed, P).guess_count = Len(log) + 1

\* C15, its cases: a player completed with the third guess after two wrong
\* ones.
C15_Witness ==
    \E o \in Rooms : \E k \in DOMAIN objects[o].completed :
        LET n == objects[o].completed[k][1] IN
        /\ objects[o].completed[k][2].guess_count = 3
        /\ Has(objects[o].guesses, n)
        /\ Len(Get(objects[o].guesses, n)) = 3

\* ------------------------------------------ RoomsSpec: two rooms at once
\* The handlers of join_game, start_game, make_guess, get_game_state and
\* disconnect run at once, as in Spec, from the states with two rooms
\* live: the first as PlaySpec starts it (members joined, assignments
\* submitted, game started), the second just created by some connection.
RoomsInit ==
    /\ games = <<<<CodeOf(1), 1>>, <<CodeOf(2), 2>>>>
    /\ \E a \in PlayAssignments, host \in Sids : objects = <<PlayGame(a), Game(host)>>
    /\ conn = [s \in Sids |-> "open"]
    /\ threads = [t \in 1..MaxThreads |-> Idle]

RoomsScope ==
    /\ Len(games) <= MaxTwoRooms
    /\ Cardinality(DOMAIN objects) <= MaxTwoRooms
    /\ TotalGuesses <= MaxRoomsGuesses
    /\ LatestTime <= MaxTime

RoomsNext ==
    \/ \E sid \in Sids, room \in RoomInputs, name \in Names :
          JoinGame(sid, room, name) /\ RoomsScope'
    \/ \E sid \in Sids, room \in generate_code : StartGame(sid, room) /\ RoomsScope'
    \/ \E sid \in Sids, room \in generate_code, name \in Names, guess \in GuessInputs :
          MakeGuess(sid, room, name, guess) /\ RoomsScope'
    \/ \E sid \in Sids, room \in generate_code : GetGameState(sid, room) /\ RoomsScope'
    \/ \E sid \in Sids : Disconnect(sid) /\ RoomsScope'

RoomsSpec == RoomsInit /\ [][RoomsNext]_vars

\* Dict d2 is dict d without key k: the other entries, in the same order.
Without(d2, d, k) ==
    /\ Keys(d2) = Keys(d) \ {k}
    /\ \A a \in Keys(d2) : Get(d2, a) = Get(d, a)
    /\ \A a, b \in Keys(d2) : IndexOf(d2, a) < IndexOf(d2, b) <=> IndexOf(d, a) < IndexOf(d, b)

\* C16: in every reachable state, the disconnect of a connection that is a
\* member of a room, with display name N there, changes one Game it is a
\* member of: it removes exactly the connection's players entry and the
\* entries keyed by N in assignments, guesses and completed, and leaves
\* started, host_id and every other entry (also assignments whose recipient
\* is N) as they are; every other Game and every other registry entry is
\* unchanged.
C16_DisconnectFrame ==
    \A sid \in Sids :
        LET out == handle_disconnect(games, objects, sid) IN
        (conn[sid] = "open" /\ \E o \in Rooms : Has(objects[o].players, sid)) =>
          \E k \in DOMAIN games :
            LET o == games[k][2]
                g == objects[o]
            IN /\ Has(g.players, sid)
               /\ LET N == Get(g.players, sid)
                      g2 == out.objects[o]
                  IN /\ Without(g2.players, g.players, sid)
                     /\ Without(g2.assignments, g.assignments, N)
                     /\ Without(g2.guesses, g.guesses, N)
                     /\ Without(g2.completed, g.completed, N)
                     /\ g2.started = g.started
                     /\ g2.host_id = g.host_id
               /\ \A p \in DOMAIN objects \ {o} : out.objects[p] = objects[p]
               /\ \A j \in DOMAIN games \ {k} :
                     /\ Has(out.games, games[j][1])
                     /\ Get(out.games, games[j][1]) = games[j][2]
               /\ Has(out.games, games[k][1]) => Get(out.games, games[k][1]) = o

\* C16, its cases: two rooms, a connection that is open and a member of
\* both; in one of them its name has a guess log with a guess, a completion
\* and an assignment, another name's assignment has it as recipient, and
\* another member is present.
C16_Witness ==
    /\ Len(games) = 2
    /\ \E sid \in Sids :
         /\ conn[sid] = "open"
         /\ \A o \in Rooms : Has(objects[o].players, sid)
         /\ \E o \in Rooms :
              LET g == objects[o]
                  N == Get(g.players, sid)
              IN /\ Len(g.players) = 2
                 /\ Has(g.completed, N)
                 /\ Has(g.assignments, N)
                 /\ \E a \in DOMAIN g.assignments :
                       g.assignments[a][1] # N /\ g.assignments[a][2] = N

\* C18: in every reachable state, a connection whose disconnect has been
\* handled is not a key of players of any room in the registry.
C18_DisconnectedIsNowhere ==
    \A s \in Sids :
        conn[s] = "closed" => \A o \in Rooms : ~Has(objects[o].players, s)

====
